---- MODULE Spec2Model ----
(***************************************************************************)
(* Model of src/main.py: ReportAnalyzer (get_summary_stats,                *)
(* get_top_performers, get_trend_analysis) and ExcelReportGenerator        *)
(* (create_workbook, add_worksheet, format_worksheet, add_summary_sheet,   *)
(* save_report, generate_complete_report).                                 *)
(*                                                                         *)
(* A DataFrame is a record [columns, rows, dtypes]; a cell value is a      *)
(* tagged record (NoneV, IntV, StrV, Timestamp).  A worksheet is the       *)
(* openpyxl cell                                                           *)
(* map (coordinate -> value) with the merged coordinates, the per-cell     *)
(* style and the column_dimensions widths.                                 *)
(***************************************************************************)
EXTENDS Integers, Sequences, FiniteSets, TLC

VARIABLES
    data,        \* the DataFrame handed to the method under analysis
    args,        \* the arguments of the analyzer call that produced out
    out,         \* the value returned by the last analyzer call
    data_dict,   \* generate_complete_report's argument: sequence of (name, data)
    config,      \* ReportConfig flags and whether output_path can be written
    workbook,    \* self.workbook: NoWorkbook or Workbook(its sheets in order)
    worksheets,  \* self.worksheets: name -> position of the sheet in workbook
    pc,          \* position inside generate_complete_report
    i,           \* index of the data_dict entry the loop is at
    ret,         \* value returned by generate_complete_report ("none" before)
    trace,       \* the steps generate_complete_report has executed so far
    summary,     \* the dict get_summary_stats returned to add_summary_sheet
    saved,       \* what workbook.save left at output_path
    nformat      \* number of format_worksheet calls made on the sheet

vars == <<data, args, out, data_dict, config, workbook, worksheets, pc, i,
          ret, trace, summary, saved, nformat>>

-----------------------------------------------------------------------------
(* Bounds *)
MaxCols == 2
MaxRows == 2
MaxFormats == 2
MaxTopRows == 3
MaxTopN == 2
MaxTrendRows == 3
MaxMonth == 3
MaxSheets == 2
MaxPipeRows == 1

-----------------------------------------------------------------------------
(* Cell values *)
NoneV == [t |-> "none", i |-> 0, s |-> "", us |-> 0]
IntV(n) == [t |-> "int", i |-> n, s |-> "", us |-> 0]
StrV(x) == [t |-> "str", i |-> 0, s |-> x, us |-> 0]
\* a Timestamp of the model year: month m, day d, and us the microseconds
\* of its time of day (datetime.now() keeps them, a date at a whole second
\* has us = 0)
Timestamp(m, d, us) == [t |-> "date", i |-> m * 100 + d, s |-> "", us |-> us]
\* a date at midnight
DateV(m, d) == Timestamp(m, d, 0)
\* missing datetime, and the float nan
NaT == [t |-> "nat", i |-> 0, s |-> "", us |-> 0]
NaN == [t |-> "nan", i |-> 0, s |-> "", us |-> 0]

Max(S) == CHOOSE x \in S : \A y \in S : y <= x
Min(S) == CHOOSE x \in S : \A y \in S : x <= y
Min2(a, b) == IF a <= b THEN a ELSE b

\* len(str(value)): str(None) is 'None', str of a Timestamp is
\* 'YYYY-MM-DD HH:MM:SS', followed by '.ffffff' when it has microseconds
str_len(v) ==
    CASE v.t = "none" -> 4
      [] v.t = "int"  -> Len(ToString(v.i))
      [] v.t = "str"  -> Len(v.s)
      [] v.t = "date" -> IF v.us = 0 THEN 19 ELSE 26

-----------------------------------------------------------------------------
(* DataFrames *)
LongHeader == "observacoes_adicionais_do_vendedor_sobre_o_pedido__"

\* the dtype pandas infers for a column whose values are drawn from S
infer_dtype(S) ==
    IF S # {} /\ \A v \in S : v.t = "int" THEN "int64"
    ELSE IF S # {} /\ \A v \in S : v.t = "date" THEN "datetime64"
    ELSE "object"

\* pd.DataFrame over the columns cols with the rows rs.  With typed the
\* column dtypes are the ones of the values of dom; a frame without rows
\* can also be built without dtypes (pd.DataFrame(columns=...)), and every
\* column is then object
frame(cols, rs, dom, typed) ==
    [columns |-> cols, rows |-> rs,
     dtypes |-> [k \in 1..Len(cols) |->
                    IF typed THEN infer_dtype(dom[cols[k]]) ELSE "object"]]

RECURSIVE RowSet(_, _)
\* every row over the columns cols, the value of column c drawn from dom[c]
RowSet(cols, dom) ==
    IF cols = <<>> THEN {<<>>}
    ELSE {<<v>> \o r : v \in dom[Head(cols)], r \in RowSet(Tail(cols), dom)}

\* d is a DataFrame with one of the column sequences and at most maxrows rows
IsDataFrame(d, colseqs, maxrows, dom) ==
    \E cols \in colseqs, n \in 0..maxrows :
        \E rs \in [1..n -> RowSet(cols, dom)] :
            \E typed \in (IF n = 0 THEN BOOLEAN ELSE {TRUE}) :
                d = frame(cols, rs, dom, typed)

\* every DataFrame with one of the column sequences and at most maxrows rows
DataFrames(colseqs, maxrows, dom) ==
    UNION {UNION {{frame(cols, rs, dom, typed) :
                      rs \in [1..n -> RowSet(cols, dom)],
                      typed \in (IF n = 0 THEN BOOLEAN ELSE {TRUE})}
                  : n \in 0..maxrows}
           : cols \in colseqs}

\* self.data[name]: the values of one column, in row order
column_values(d, name) ==
    LET c == CHOOSE k \in 1..Len(d.columns) : d.columns[k] = name
    IN  [r \in 1..Len(d.rows) |-> d.rows[r][c]]

has_column(d, name) == \E k \in 1..Len(d.columns) : d.columns[k] = name

\* self.data[name].dtype
dtype_of(d, name) ==
    d.dtypes[CHOOSE k \in 1..Len(d.columns) : d.columns[k] = name]

-----------------------------------------------------------------------------
(* Worksheets *)
DefaultStyle == [font |-> "default", fill |-> "none", alignment |-> "general",
                 border |-> "none"]

\* openpyxl's Worksheet(parent, title): no cells, no widths
new_sheet(title) ==
    [title |-> title, cells |-> <<>>, merged |-> {}, style |-> <<>>,
     width |-> <<>>]

\* ws.max_row / ws.max_column: 1 for a sheet without cells
max_row(ws) ==
    IF DOMAIN ws.cells = {} THEN 1 ELSE Max({p[1] : p \in DOMAIN ws.cells})
max_column(ws) ==
    IF DOMAIN ws.cells = {} THEN 1 ELSE Max({p[2] : p \in DOMAIN ws.cells})

\* ws.cell(row, column) on every coordinate of S: an absent cell is created
\* empty and unstyled, an existing one is left as it is
touch(ws, S) ==
    [ws EXCEPT
       !.cells = [p \in (DOMAIN ws.cells) \cup S |->
                     IF p \in DOMAIN ws.cells THEN ws.cells[p] ELSE NoneV],
       !.style = [p \in (DOMAIN ws.style) \cup S |->
                     IF p \in DOMAIN ws.style THEN ws.style[p]
                     ELSE DefaultStyle]]

-----------------------------------------------------------------------------
(* openpyxl Workbook.create_sheet *)
\* self.workbook = None, and a Workbook with its sheets in order
NoWorkbook == [open |-> FALSE, sheets |-> <<>>]
Workbook(sheets) == [open |-> TRUE, sheets |-> sheets]

\* nothing at output_path
NoFile == [written |-> FALSE, complete |-> FALSE, sheets |-> <<>>]

\* no call of get_summary_stats yet
NoSummary == [called |-> FALSE]

\* the characters openpyxl refuses in a sheet title
invalid_title(title) ==
    \E k \in 1..Len(title) :
        SubSeq(title, k, k) \in {"\\", "*", "?", ":", "/", "[", "]"}

\* workbook.sheetnames: the titles of the sheets, in order
sheetnames(wb) == [k \in 1..Len(wb) |-> wb[k].title]

UpperCase == "ABCDEFGHIJKLMNOPQRSTUVWXYZ"
LowerCase == "abcdefghijklmnopqrstuvwxyz"
Digits == "0123456789"

\* str.lower() (and the re.I comparison) on the letters A..Z; any other
\* character is left as it is
LowerOf ==
    [c \in {SubSeq(UpperCase, k, k) : k \in 1..26} |->
        LET k == CHOOSE x \in 1..26 : SubSeq(UpperCase, x, x) = c
        IN  SubSeq(LowerCase, k, k)]

lower_char(c) == IF c \in DOMAIN LowerOf THEN LowerOf[c] ELSE c

RECURSIVE lower(_)
lower(x) ==
    IF Len(x) = 0 THEN ""
    ELSE lower_char(SubSeq(x, 1, 1)) \o lower(SubSeq(x, 2, Len(x)))

DigitOf == [c \in {SubSeq(Digits, k, k) : k \in 1..10} |->
               (CHOOSE k \in 1..10 : SubSeq(Digits, k, k) = c) - 1]

is_digit(c) == c \in DOMAIN DigitOf

RECURSIVE int_of(_)
\* int(idx) of a string of digits
int_of(ds) ==
    IF Len(ds) = 0 THEN 0
    ELSE int_of(SubSeq(ds, 1, Len(ds) - 1)) * 10
         + DigitOf[SubSeq(ds, Len(ds), Len(ds))]

RECURSIVE join(_)
\* ",".join(names)
join(names) ==
    IF names = <<>> THEN ""
    ELSE IF Len(names) = 1 THEN names[1]
    ELSE names[1] \o "," \o join(Tail(names))

RECURSIVE digits_end(_, _)
\* the position after the longest run of digits of x that starts at p
digits_end(x, p) ==
    IF p <= Len(x) /\ is_digit(SubSeq(x, p, p)) THEN digits_end(x, p + 1)
    ELSE p

RECURSIVE title_counts(_, _, _)
\* the counts of sheet_title.findall(names), the pattern being value, then
\* digits, then an optional comma: the matches are taken from left to right
\* from position p on, wherever value occurs, and a match without digits
\* gives no count.  The pattern is matched without regard to case: x and
\* value are passed in lower case
title_counts(x, value, p) ==
    IF p + Len(value) - 1 > Len(x) THEN {}
    ELSE IF SubSeq(x, p, p + Len(value) - 1) = value
    THEN LET b == p + Len(value)
             e == digits_end(x, b)
             next == IF e <= Len(x) /\ SubSeq(x, e, e) = "," THEN e + 1 ELSE e
         IN  (IF e > b THEN {int_of(SubSeq(x, b, e - 1))} ELSE {})
                \cup title_counts(x, value, next)
    ELSE title_counts(x, value, p + 1)

\* avoid_duplicate_name(names, value): when a name equals value up to case,
\* value gets the number after the highest count found behind an occurrence
\* of value in the joined names
avoid_duplicate_name(names, value) ==
    IF \E k \in 1..Len(names) : lower(names[k]) = lower(value)
    THEN LET counts == title_counts(lower(join(names)), lower(value), 1)
             highest == IF counts = {} THEN 0 ELSE Max(counts)
         IN  value \o ToString(highest + 1)
    ELSE value

\* the title a new Worksheet takes: title or "Sheet", made unique
sheet_title(wb, title) ==
    avoid_duplicate_name(sheetnames(wb),
                         IF title = "" THEN "Sheet" ELSE title)

\* faulty variant: the new sheet is put first
create_sheet_front(wb, title) == <<new_sheet(sheet_title(wb, title))>> \o wb

\* self.workbook.create_sheet(title=name): the new sheet goes last
create_sheet(wb, title) == Append(wb, new_sheet(sheet_title(wb, title)))

-----------------------------------------------------------------------------
(* ExcelReportGenerator.add_worksheet *)
\* the two loops of add_worksheet: row 1 holds the column titles, row r + 1
\* the r-th row of data.values
populate_cells(d) ==
    [p \in (1..(Len(d.rows) + 1)) \X (1..Len(d.columns)) |->
        IF p[1] = 1 THEN StrV(d.columns[p[2]])
        ELSE d.rows[p[1] - 1][p[2]]]

\* data.values holds numpy.datetime64 scalars when every column of the
\* frame is datetime64 (a frame of mixed dtypes gives an object array of
\* Timestamps and numbers); openpyxl cannot convert such a scalar
values_are_datetime64(d) ==
    /\ Len(d.columns) >= 1
    /\ \A k \in 1..Len(d.columns) : d.dtypes[k] = "datetime64"

\* add_worksheet(name, data) on the object state (wb, wss).  raised: the
\* ValueError of create_sheet for an invalid title (no sheet is made), or
\* the ValueError of ws.cell at the first data cell of a frame of
\* numpy.datetime64 values (the header row is written, the cell is created
\* empty)
add_worksheet(wb, wss, name, d) ==
    IF invalid_title(name)
    THEN [workbook |-> wb, worksheets |-> wss, raised |-> TRUE]
    ELSE LET wb1 == create_sheet(wb, name)
             k == Len(wb1)
             fails == values_are_datetime64(d) /\ Len(d.rows) >= 1
             all == populate_cells(d)
             cs == IF fails
                   THEN [p \in ({1} \X (1..Len(d.columns))) \cup {<<2, 1>>} |->
                            IF p[1] = 1 THEN all[p] ELSE NoneV]
                   ELSE all
             ws == [wb1[k] EXCEPT
                      !.cells = cs,
                      !.style = [p \in DOMAIN cs |-> DefaultStyle]]
         IN  [workbook |-> [wb1 EXCEPT ![k] = ws],
              worksheets |-> [n \in (DOMAIN wss) \cup {name} |->
                                 IF n = name THEN k ELSE wss[n]],
              raised |-> fails]

-----------------------------------------------------------------------------
(* ExcelReportGenerator.format_worksheet *)
\* faulty variant: a header cell that is already bold loses its font
HeaderStyle_toggle(st) ==
    IF st.font = "bold_white" THEN [st EXCEPT !.font = "default"]
    ELSE [st EXCEPT !.font = "bold_white", !.fill = "366092",
                    !.alignment = "center"]

\* the header font, fill and alignment format_worksheet gives a cell of row 1
HeaderStyle(st) ==
    [st EXCEPT !.font = "bold_white", !.fill = "366092",
               !.alignment = "center"]

\* max_length of the width loop: the longest len(str(cell.value)) of column c
max_length(ws, c) ==
    Max({0} \cup {str_len(ws.cells[p]) : p \in {q \in DOMAIN ws.cells : q[2] = c}})

\* faulty variant: no padding of 2
adjusted_width_nopad(ws, c) == Min2(max_length(ws, c), 50)

\* adjusted_width = min(max_length + 2, 50)
adjusted_width(ws, c) == Min2(max_length(ws, c) + 2, 50)

\* format_worksheet on one sheet; raised is TRUE when the width loop reaches
\* a column whose first cell is a MergedCell (it has no column_letter).
\* The header loop (for cell in ws[1]) visits row 1 up to max_column; the
\* width loop (for column in ws.columns) visits the columns in order, each
\* over all rows, up to the column at which it raises; the border loop
\* (for row in ws.iter_rows()) runs when the width loop went through.  A
\* cell that is visited and absent is created empty.
format_sheet(ws) ==
    LET ncols == max_column(ws)
        nrows == max_row(ws)
        bad == {c \in 1..ncols : <<1, c>> \in ws.merged}
        stop == IF bad = {} THEN ncols + 1 ELSE Min(bad)
        visited == touch(ws, ({1} \X (1..ncols))
                               \cup ((1..nrows) \X (1..Min2(stop, ncols))))
        widths == [c \in 1..(stop - 1) |-> adjusted_width(visited, c)]
    IN  [ws |-> [visited EXCEPT
                   !.style = [p \in DOMAIN visited.style |->
                      LET st == IF p[1] = 1 THEN HeaderStyle(visited.style[p])
                                ELSE visited.style[p]
                      IN  IF bad = {} THEN [st EXCEPT !.border = "thin"]
                          ELSE st],
                   !.width = [c \in (DOMAIN ws.width) \cup (1..(stop - 1)) |->
                      IF c < stop THEN widths[c] ELSE ws.width[c]]],
         raised |-> bad # {}]

\* format_worksheet(ws_name) on the object state (wb, wss)
format_worksheet(wb, wss, ws_name) ==
    IF ws_name \notin DOMAIN wss
    THEN [workbook |-> wb, raised |-> FALSE]
    ELSE LET r == format_sheet(wb[wss[ws_name]])
         IN  [workbook |-> [wb EXCEPT ![wss[ws_name]] = r.ws],
              raised |-> r.raised]

-----------------------------------------------------------------------------
(* Values of the variables a specification does not use *)
Idle ==
    /\ args = <<>>
    /\ out = "none"
    /\ data_dict = <<>>
    /\ config = [include_summary |-> FALSE, auto_format |-> FALSE,
                 path_writable |-> TRUE]
    /\ worksheets = <<>>
    /\ pc = "idle"
    /\ i = 0
    /\ ret = "none"
    /\ trace = <<>>
    /\ summary = NoSummary
    /\ saved = NoFile
    /\ nformat = 0

-----------------------------------------------------------------------------
(* SpecSheet: add_worksheet and format_worksheet called on a generator     *)
(* whose workbook was just created                                         *)
SheetCols == {"regiao", "quantidade", "data", LongHeader}

SheetDom ==
    [c \in SheetCols |->
        CASE c = "regiao"     -> {StrV("Centro-Oeste"), NoneV}
          [] c = "quantidade" -> {IntV(7), IntV(-12345)}
          [] c = "data"       -> {Timestamp(7, 31, 0), Timestamp(7, 31, 599814)}
          [] OTHER            -> {StrV("ok"), NoneV}]

\* the sequences of at most n distinct names of S
ColSeqs(S, n) ==
    UNION {{q \in [1..k -> S] : \A a, b \in 1..k : a # b => q[a] # q[b]}
           : k \in 0..n}

SheetName == "Vendas Detalhadas"

InitSheet ==
    /\ IsDataFrame(data, ColSeqs(SheetCols, MaxCols), MaxRows, SheetDom)
    /\ workbook = Workbook(<<>>)
    /\ Idle

\* generator.add_worksheet(SheetName, data)
AddWorksheet ==
    /\ workbook.sheets = <<>>
    /\ LET r == add_worksheet(workbook.sheets, worksheets, SheetName, data)
       IN  /\ workbook' = Workbook(r.workbook)
           /\ worksheets' = r.worksheets
    /\ UNCHANGED <<data, args, out, data_dict, config, pc, i, ret, trace,
                   summary, saved, nformat>>

\* generator.format_worksheet(ws_name), ws_name a sheet of the generator
FormatWorksheet ==
    /\ nformat < MaxFormats
    /\ \E ws_name \in DOMAIN worksheets :
          workbook' = Workbook(format_worksheet(workbook.sheets, worksheets,
                                                ws_name).workbook)
    /\ nformat' = nformat + 1
    /\ UNCHANGED <<data, args, out, data_dict, config, worksheets, pc, i, ret,
                   trace, summary, saved>>

\* generator.format_worksheet(ws_name), ws_name unknown: the early return
FormatUnknown ==
    /\ "Inexistente" \notin DOMAIN worksheets
    /\ workbook' = Workbook(format_worksheet(workbook.sheets, worksheets,
                                             "Inexistente").workbook)
    /\ UNCHANGED <<data, args, out, data_dict, config, worksheets, pc, i, ret,
                   trace, summary, saved, nformat>>

NextSheet == AddWorksheet \/ FormatWorksheet \/ FormatUnknown

SpecSheet == InitSheet /\ [][NextSheet]_vars

\* the sheet add_worksheet made, once it exists
TheSheet == workbook.sheets[1]

SheetMatchesData ==
    LET ws == TheSheet
        nr == Len(data.rows)
        nc == Len(data.columns)
    IN  /\ max_row(ws) = nr + 1
        /\ max_column(ws) = nc
        /\ DOMAIN ws.cells = (1..(nr + 1)) \X (1..nc)
        /\ \A c \in 1..nc : ws.cells[<<1, c>>] = StrV(data.columns[c])
        /\ \A r \in 1..nr : \A c \in 1..nc :
              ws.cells[<<r + 1, c>>] = data.rows[r][c]

\* add_worksheet went through all of data
Populated ==
    /\ workbook.sheets # <<>>
    /\ ~add_worksheet(<<>>, <<>>, SheetName, data).raised

\* C1: for every DataFrame, the sheet add_worksheet leaves has
\* len(rows)+1 rows and len(columns) columns, row 1 the column names in
\* order and row i+1 the values of the i-th data row
C1_Claim ==
    (workbook.sheets # <<>> /\ nformat = 0) => SheetMatchesData

\* the longest stringified length of column c of data, header included
LongestOf(c) ==
    Max({Len(data.columns[c])} \cup
        {str_len(data.rows[r][c]) : r \in 1..Len(data.rows)})

WidthFormula ==
    /\ DOMAIN TheSheet.width = 1..max_column(TheSheet)
    /\ \A c \in 1..Len(data.columns) :
          /\ TheSheet.width[c] = Min2(LongestOf(c) + 2, 50)
          /\ TheSheet.width[c] >= 0

\* C4 as stated: after format_worksheet every column is min(L + 2, 50) wide,
\* never negative and never narrower than its own header label
C4_Original ==
    (Populated /\ nformat >= 1) =>
        /\ WidthFormula
        /\ \A c \in 1..Len(data.columns) :
              TheSheet.width[c] >= Len(data.columns[c])

\* C4 amended: after format_worksheet every column is min(L + 2, 50) wide,
\* never negative, and never narrower than its header label unless the
\* label is longer than 50 characters, when the width is 50
C4_Theorem ==
    (Populated /\ nformat >= 1) =>
        /\ WidthFormula
        /\ \A c \in 1..Len(data.columns) :
              TheSheet.width[c] >= Min2(Len(data.columns[c]), 50)

\* a column of dates with microseconds is 26 + 2 wide, a column under a
\* header of 51 characters is 50 wide
C4_Witness ==
    /\ Populated
    /\ nformat >= 1
    /\ \E c \in 1..Len(data.columns) :
          /\ data.columns[c] = "data"
          /\ \E r \in 1..Len(data.rows) : data.rows[r][c].us # 0
          /\ TheSheet.width[c] = 28
    /\ \E c \in 1..Len(data.columns) :
          /\ data.columns[c] = LongHeader
          /\ TheSheet.width[c] = 50

\* C5: a second format_worksheet leaves fonts, fills, alignments, borders,
\* widths and cells exactly as the first left them, and neither call
\* changes the value of a cell
C5_Theorem ==
    [][(nformat' = nformat + 1) =>
          /\ nformat >= 1 => workbook' = workbook
          /\ \A p \in DOMAIN TheSheet.cells :
                TheSheet'.cells[p] = TheSheet.cells[p]
          /\ \A p \in DOMAIN TheSheet'.cells :
                p \notin DOMAIN TheSheet.cells => TheSheet'.cells[p] = NoneV]_vars

C5_Witness ==
    /\ workbook.sheets # <<>>
    /\ nformat = 2
    /\ Len(data.rows) >= 1
    /\ Len(data.columns) >= 1
    /\ \A p \in DOMAIN TheSheet.style : TheSheet.style[p].border = "thin"
    /\ TheSheet.style[<<1, 1>>].font = "bold_white"
    /\ TheSheet.style[<<2, 1>>].font = "default"

-----------------------------------------------------------------------------
(* ReportAnalyzer.get_top_performers *)

\* the strings of the model in the order Python sorts them
Alphabetical == <<"Centro-Oeste", "Leste", "Norte", "Sul", "ok">>

\* position of a value in the sort order of its column
sort_key(v) ==
    IF v.t = "str"
    THEN CHOOSE k \in 1..Len(Alphabetical) : Alphabetical[k] = v.s
    ELSE v.i

RECURSIVE SumSeq(_)
SumSeq(q) == IF q = <<>> THEN 0 ELSE Head(q).i + SumSeq(Tail(q))

\* the rows of d whose value in column name is key, in row order
rows_of_group(d, name, key) ==
    LET col == column_values(d, name)
    IN  SelectSeq([r \in 1..Len(d.rows) |-> [r |-> r, k |-> col[r]]],
                  LAMBDA e : e.k = key)

group_keys(d, name) ==
    {column_values(d, name)[r] : r \in 1..Len(d.rows)} \ {NoneV}

\* the sum of value_column over the rows of one group
group_sum(d, column, value_column, key) ==
    LET rs == rows_of_group(d, column, key)
        vals == column_values(d, value_column)
    IN  SumSeq([k \in 1..Len(rs) |-> vals[rs[k].r]])

\* faulty variant: the groups in the order their keys are first met
groupby_sum_first_seen(d, column, value_column) ==
    LET K == group_keys(d, column)
        first(x) == Head(rows_of_group(d, column, x)).r
        ordered == [k \in 1..Cardinality(K) |->
                      CHOOSE x \in K :
                         Cardinality({y \in K : first(y) < first(x)}) = k - 1]
    IN  [k \in 1..Cardinality(K) |->
            [key |-> ordered[k],
             total |-> group_sum(d, column, value_column, ordered[k])]]

\* self.data.groupby(column)[value_column].sum(): one entry per group key,
\* the keys in sorted order (groupby sorts them), null keys dropped
groupby_sum(d, column, value_column) ==
    LET K == group_keys(d, column)
        ordered == [k \in 1..Cardinality(K) |->
                      CHOOSE x \in K :
                         Cardinality({y \in K : sort_key(y) < sort_key(x)}) = k - 1]
    IN  [k \in 1..Cardinality(K) |->
            [key |-> ordered[k],
             total |-> group_sum(d, column, value_column, ordered[k])]]

\* the entries of series by descending total, equal totals in the order
\* they have in the series (a stable sort)
stable_descending(series) ==
    LET before(a, b) == \/ series[a].total > series[b].total
                        \/ series[a].total = series[b].total /\ a < b
    IN  [k \in 1..Len(series) |->
            series[CHOOSE a \in 1..Len(series) :
               Cardinality({b \in 1..Len(series) : before(b, a)}) = k - 1]]

\* every order sort_values(ascending=False) can leave the series in: the
\* totals descend, and the default sort (quicksort) promises nothing about
\* the order of equal totals
sort_values_descending(series) ==
    LET L == Len(series)
        orders == {p \in [1..L -> 1..L] :
                     /\ \A a, b \in 1..L : a # b => p[a] # p[b]
                     /\ \A k \in 1..(L - 1) :
                           series[p[k]].total >= series[p[k + 1]].total}
    IN  {[k \in 1..L |-> series[p[k]]] : p \in orders}

\* faulty variant: the smallest totals first
nlargest_ascending(series, n) ==
    LET before(a, b) == \/ series[a].total < series[b].total
                        \/ series[a].total = series[b].total /\ a < b
        sorted == [k \in 1..Len(series) |->
                     series[CHOOSE a \in 1..Len(series) :
                        Cardinality({b \in 1..Len(series) : before(b, a)}) = k - 1]]
    IN  {SubSeq(sorted, 1, Min2(n, Len(series)))}

\* Series.nlargest(n), keep='first': the set of results it can give.
\* Nothing for n <= 0; for n >= len(series) the whole series through
\* sort_values(ascending=False).head(n), equal totals in any order; otherwise
\* the n largest totals in descending order, equal totals in the order they
\* have in the series
nlargest(series, n) ==
    IF n <= 0 THEN {<<>>}
    ELSE IF n >= Len(series) THEN sort_values_descending(series)
    ELSE {SubSeq(stable_descending(series), 1, n)}

\* pd.DataFrame()
EmptyFrame == [raised |-> "none", columns |-> <<>>, rows |-> <<>>]

\* get_top_performers(column, value_column, top_n): the set of its possible
\* outcomes.  nlargest raises TypeError on a sum that is not numeric,
\* reset_index raises ValueError when the index and the values have the
\* same name
get_top_performers(d, column, value_column, top_n) ==
    IF has_column(d, column) /\ has_column(d, value_column)
    THEN IF dtype_of(d, value_column) # "int64"
         THEN {[raised |-> "TypeError", columns |-> <<>>, rows |-> <<>>]}
         ELSE IF column = value_column
         THEN {[raised |-> "ValueError", columns |-> <<>>, rows |-> <<>>]}
         ELSE {[raised |-> "none", columns |-> <<column, value_column>>,
                rows |-> rs] :
                  rs \in nlargest(groupby_sum(d, column, value_column), top_n)}
    ELSE {EmptyFrame}

-----------------------------------------------------------------------------
(* SpecTop: get_top_performers called on an analyzer over data *)
TopDom ==
    [c \in {"regiao", "quantidade"} |->
        IF c = "regiao" THEN {StrV("Norte"), StrV("Sul"), StrV("Leste")}
        ELSE {IntV(25), IntV(50), IntV(100)}]

TopArgNames == {"regiao", "quantidade", "vendedor"}

InitTop ==
    /\ IsDataFrame(data, {<<"regiao", "quantidade">>, <<"quantidade">>},
                   MaxTopRows, TopDom)
    /\ workbook = NoWorkbook
    /\ Idle

\* analyzer.get_top_performers(column, value_column, top_n)
TopPerformers ==
    /\ \E column \in TopArgNames, value_column \in TopArgNames,
          top_n \in 0..MaxTopN :
          /\ args' = <<column, value_column, top_n>>
          /\ out' \in get_top_performers(data, column, value_column, top_n)
    /\ UNCHANGED <<data, data_dict, config, workbook, worksheets, pc, i, ret,
                   trace, summary, saved, nformat>>

NextTop == TopPerformers

SpecTop == InitTop /\ [][NextTop]_vars

Called == args # <<>>

\* the sum of column v over the rows of data whose column g equals key
SumWhere(g, v, key) ==
    LET R == {r \in 1..Len(data.rows) : column_values(data, g)[r] = key}
        RECURSIVE S(_)
        S(T) == IF T = {} THEN 0
                ELSE LET r == CHOOSE x \in T : TRUE
                     IN  column_values(data, v)[r].i + S(T \ {r})
    IN  S(R)

\* every returned row is (group key, sum of the group), no group twice, at
\* most top_n rows
TopRowsAreGroupSums ==
    LET g == args[1]
        v == args[2]
    IN  /\ Len(out.rows) <= args[3]
        /\ \A k \in 1..Len(out.rows) :
              /\ \E r \in 1..Len(data.rows) :
                    column_values(data, g)[r] = out.rows[k].key
              /\ out.rows[k].total = SumWhere(g, v, out.rows[k].key)
        /\ \A j, k \in 1..Len(out.rows) :
              j # k => out.rows[j].key # out.rows[k].key

TopMissingIsEmpty ==
    (~has_column(data, args[1]) \/ ~has_column(data, args[2]))
        => out = EmptyFrame

\* C2 as stated: for every DataFrame, g, v and n the result is one (key,
\* sum) pair per group, strictly descending by sum, at most n long, and
\* empty without raising when g or v is not a column
C2_Original ==
    Called =>
        /\ out.raised = "none"
        /\ TopMissingIsEmpty
        /\ (has_column(data, args[1]) /\ has_column(data, args[2])) =>
              /\ TopRowsAreGroupSums
              /\ \A k \in 1..(Len(out.rows) - 1) :
                    out.rows[k].total > out.rows[k + 1].total

\* C2 amended: for distinct columns g and v of the DataFrame, v numeric,
\* the result is one (key, sum) pair per returned group, in non-increasing
\* order of sum (groups with equal sums stay adjacent), at most n long;
\* whenever g or v is not a column the result is empty and nothing is raised
C2_Theorem ==
    Called =>
        /\ TopMissingIsEmpty
        /\ (/\ has_column(data, args[1])
            /\ has_column(data, args[2])
            /\ args[1] # args[2]
            /\ dtype_of(data, args[2]) = "int64") =>
              /\ out.raised = "none"
              /\ TopRowsAreGroupSums
              /\ Len(out.rows) =
                    Min2(args[3], Cardinality(group_keys(data, args[1])))
              /\ \A k \in 1..(Len(out.rows) - 1) :
                    out.rows[k].total >= out.rows[k + 1].total
              \* nothing left out is larger than something returned
              /\ \A key \in group_keys(data, args[1]) :
                    (\A k \in 1..Len(out.rows) : out.rows[k].key # key) =>
                       \A k \in 1..Len(out.rows) :
                          out.rows[k].total >= SumWhere(args[1], args[2], key)

\* the scenario of the specification: rows (Norte,100), (Sul,50), (Norte,25)
\* give (Norte,125), (Sul,50)
C2_Witness ==
    /\ Called
    /\ data.columns = <<"regiao", "quantidade">>
    /\ data.rows = << <<StrV("Norte"), IntV(100)>>, <<StrV("Sul"), IntV(50)>>,
                      <<StrV("Norte"), IntV(25)>> >>
    /\ args = <<"regiao", "quantidade", 2>>
    /\ out.rows = << [key |-> StrV("Norte"), total |-> 125],
                     [key |-> StrV("Sul"), total |-> 50] >>

\* row of data at which a group key is first met
FirstSeen(g, key) ==
    Min({r \in 1..Len(data.rows) : column_values(data, g)[r] = key})

TopCase ==
    /\ Called
    /\ out.raised = "none"
    /\ has_column(data, args[1])
    /\ has_column(data, args[2])

\* C10 as stated: groups with equal sums come in the order their keys are
\* first met in the rows, and a tie across the top-n cut keeps the groups
\* met first
C10_Original ==
    TopCase =>
        /\ \A k \in 1..(Len(out.rows) - 1) :
              out.rows[k].total = out.rows[k + 1].total =>
                 FirstSeen(args[1], out.rows[k].key)
                    < FirstSeen(args[1], out.rows[k + 1].key)
        /\ \A key \in group_keys(data, args[1]) :
              \A k \in 1..Len(out.rows) :
                 (/\ \A j \in 1..Len(out.rows) : out.rows[j].key # key
                  /\ SumWhere(args[1], args[2], key) = out.rows[k].total) =>
                    FirstSeen(args[1], out.rows[k].key) < FirstSeen(args[1], key)

\* C10 amended: when top_n is less than the number of groups, groups with
\* equal sums come in the sorted order of their keys (the order groupby
\* gives the groups), wherever the keys are first met in the rows, and a tie
\* across the top-n cut keeps the groups whose keys sort first; when top_n
\* is at least the number of groups every group is returned, and the order
\* of groups with equal sums is not determined
C10_Theorem ==
    TopCase =>
        /\ args[3] < Cardinality(group_keys(data, args[1])) =>
              \A k \in 1..(Len(out.rows) - 1) :
                 out.rows[k].total = out.rows[k + 1].total =>
                    sort_key(out.rows[k].key) < sort_key(out.rows[k + 1].key)
        /\ \A key \in group_keys(data, args[1]) :
              \A k \in 1..Len(out.rows) :
                 (/\ \A j \in 1..Len(out.rows) : out.rows[j].key # key
                  /\ SumWhere(args[1], args[2], key) = out.rows[k].total) =>
                    sort_key(out.rows[k].key) < sort_key(key)
        /\ (args[3] >= 1 /\ args[3] >= Cardinality(group_keys(data, args[1]))) =>
              {out.rows[k].key : k \in 1..Len(out.rows)}
                 = group_keys(data, args[1])

\* Sul is met first and ties with Norte across the cut of n = 1: Norte stays
C10_Witness ==
    /\ TopCase
    /\ data.rows = << <<StrV("Sul"), IntV(50)>>, <<StrV("Norte"), IntV(25)>>,
                      <<StrV("Norte"), IntV(25)>> >>
    /\ args = <<"regiao", "quantidade", 1>>
    /\ out.rows = << [key |-> StrV("Norte"), total |-> 50] >>

-----------------------------------------------------------------------------
(* ReportAnalyzer.get_trend_analysis *)

\* calendar month of a date
month_of(v) == v.i \div 100

\* last day of month m of the model year: the label pandas gives the bin of
\* a month under freq='M'
DaysInMonth == <<31, 29, 31, 30, 31, 30, 31, 31, 30, 31, 30, 31>>
month_end(m) == DateV(m, DaysInMonth[m])

RECURSIVE Gcd(_, _)
Gcd(a, b) == IF b = 0 THEN a ELSE Gcd(b, a % b)
Abs(a) == IF a < 0 THEN -a ELSE a

Null == [kind |-> "null", num |-> 0, den |-> 1]

\* pct_change() * 100 of cur against prev, as floating point gives it: a
\* ratio in lowest terms, or inf, -inf, nan when prev is 0
pct_change(prev, cur) ==
    IF prev = 0
    THEN [kind |-> IF cur > 0 THEN "inf" ELSE IF cur < 0 THEN "-inf" ELSE "nan",
          num |-> 0, den |-> 1]
    ELSE LET n == (cur - prev) * 100
             g == Gcd(Abs(n), Abs(prev))
             sgn == IF prev < 0 THEN -1 ELSE 1
         IN  [kind |-> "num", num |-> sgn * (n \div g), den |-> Abs(prev) \div g]

\* faulty variant: only the months that have a row
month_bins_present(d, date_col) ==
    LET M == {month_of(column_values(d, date_col)[r]) : r \in 1..Len(d.rows)}
    IN  [k \in 1..Cardinality(M) |->
            CHOOSE m \in M : Cardinality({x \in M : x < m}) = k - 1]

\* the bins of pd.Grouper(key=date_col, freq='M'): every calendar month from
\* the month of the earliest date to the month of the latest one
month_bins(d, date_col) ==
    LET M == {month_of(column_values(d, date_col)[r]) : r \in 1..Len(d.rows)}
    IN  IF M = {} THEN <<>>
        ELSE [k \in 1..(Max(M) - Min(M) + 1) |-> Min(M) + k - 1]

\* sum of value_col over the rows of d dated in month m (0 for no rows)
month_sum(d, date_col, value_col, m) ==
    LET rs == SelectSeq([r \in 1..Len(d.rows) |->
                            [r |-> r, m |-> month_of(column_values(d, date_col)[r])]],
                        LAMBDA e : e.m = m)
    IN  SumSeq([k \in 1..Len(rs) |-> column_values(d, value_col)[rs[k].r]])

\* get_trend_analysis(date_col, value_col).  The Grouper raises TypeError
\* on a key column that is not datetime64, and sum() on a value column
\* that is
get_trend_analysis(d, date_col, value_col) ==
    IF has_column(d, date_col) /\ has_column(d, value_col)
    THEN IF \/ dtype_of(d, date_col) # "datetime64"
            \/ dtype_of(d, value_col) = "datetime64"
         THEN [raised |-> "TypeError", columns |-> <<>>, rows |-> <<>>]
         ELSE
         LET bins == month_bins(d, date_col)
             total(k) == month_sum(d, date_col, value_col, bins[k])
         IN  [raised |-> "none",
              columns |-> <<date_col, value_col, "growth_rate">>,
              rows |-> [k \in 1..Len(bins) |->
                          [period |-> month_end(bins[k]),
                           total |-> total(k),
                           growth_rate |-> IF k = 1 THEN Null
                                           ELSE pct_change(total(k - 1), total(k))]]]
    ELSE EmptyFrame

-----------------------------------------------------------------------------
(* SpecTrend: get_trend_analysis called on an analyzer over data *)
TrendDays == {5, 20}

TrendDom ==
    [c \in {"data", "quantidade"} |->
        IF c = "data" THEN {DateV(m, dd) : m \in 1..MaxMonth, dd \in TrendDays}
        ELSE {IntV(50), IntV(100)}]

InitTrend ==
    /\ IsDataFrame(data, {<<"data", "quantidade">>, <<"quantidade">>},
                   MaxTrendRows, TrendDom)
    /\ workbook = NoWorkbook
    /\ Idle

\* analyzer.get_trend_analysis(date_col, value_col)
TrendAnalysis ==
    /\ \E date_col \in {"data", "mes"},
          value_col \in {"quantidade", "valor_liquido"} :
          /\ args' = <<date_col, value_col>>
          /\ out' = get_trend_analysis(data, date_col, value_col)
    /\ UNCHANGED <<data, data_dict, config, workbook, worksheets, pc, i, ret,
                   trace, summary, saved, nformat>>

NextTrend == TrendAnalysis

SpecTrend == InitTrend /\ [][NextTrend]_vars

\* a call on a date column and a value column of data
TrendCase ==
    /\ Called
    /\ has_column(data, args[1])
    /\ has_column(data, args[2])
    /\ dtype_of(data, args[1]) = "datetime64"
    /\ dtype_of(data, args[2]) = "int64"

\* the calendar months in which data has a row
MonthsWithRows ==
    {column_values(data, args[1])[r].i \div 100 : r \in 1..Len(data.rows)}

\* sum of column v over the rows dated in month m
SumOfMonth(v, m) ==
    LET R == {r \in 1..Len(data.rows) :
                 column_values(data, args[1])[r].i \div 100 = m}
        RECURSIVE S(_)
        S(T) == IF T = {} THEN 0
                ELSE LET r == CHOOSE x \in T : TRUE
                     IN  column_values(data, v)[r].i + S(T \ {r})
    IN  S(R)

EntryMonth(k) == out.rows[k].period.i \div 100

\* chronological order, the sum of each month, null growth first, then the
\* percent change against the entry just before
TrendEntriesRight ==
    /\ \A k \in 1..(Len(out.rows) - 1) : EntryMonth(k) < EntryMonth(k + 1)
    /\ \A k \in 1..Len(out.rows) :
          out.rows[k].total = SumOfMonth(args[2], EntryMonth(k))
    /\ Len(out.rows) >= 1 => out.rows[1].growth_rate.kind = "null"
    /\ \A k \in 2..Len(out.rows) :
          LET prev == out.rows[k - 1].total
              cur == out.rows[k].total
              g == out.rows[k].growth_rate
          IN  IF prev # 0
              THEN /\ g.kind = "num"
                   /\ g.num * prev = (cur - prev) * 100 * g.den
              ELSE g.kind = (IF cur > 0 THEN "inf"
                             ELSE IF cur < 0 THEN "-inf" ELSE "nan")

\* C3 as stated: exactly one entry per calendar month that has a row, none
\* for a month without rows, in chronological order, with the month's sum
\* and the percent change against the entry before, null for the first
C3_Original ==
    TrendCase =>
        /\ out.raised = "none"
        /\ {EntryMonth(k) : k \in 1..Len(out.rows)} = MonthsWithRows
        /\ TrendEntriesRight

TrendGapCase ==
    /\ TrendCase
    /\ Len(out.rows) = 3
    /\ MonthsWithRows = {1, 3}
    /\ out.rows[2].total = 0
    /\ out.rows[3].growth_rate.kind = "inf"

\* C3 amended: exactly one entry per calendar month from the earliest to
\* the latest month that has a row, the months without rows in between
\* included with sum 0; chronological order; each entry has the month's sum
\* and the percent change against the entry before (infinite or NaN when
\* that entry's sum is 0), null for the first
C3_Theorem ==
    TrendCase =>
        /\ out.raised = "none"
        /\ {EntryMonth(k) : k \in 1..Len(out.rows)} =
              {m \in 1..12 : /\ MonthsWithRows # {}
                             /\ Min(MonthsWithRows) <= m
                             /\ m <= Max(MonthsWithRows)}
        /\ TrendEntriesRight

\* a month without rows between two months with rows
C3_Witness == TrendGapCase

-----------------------------------------------------------------------------
(* ReportAnalyzer.get_summary_stats *)
\* a Timestamp as a number of microseconds, for comparison
ts_key(v) == v.i * 1000000 + v.us

\* self.data[name].min() / .max() of a column of dates: the earliest and
\* the latest one; of a column without a date NaT when the column is
\* datetime64 and nan when it is object
series_min(d, name) ==
    LET col == column_values(d, name)
        S == {col[r] : r \in {x \in 1..Len(col) : col[x].t = "date"}}
    IN  IF S # {} THEN CHOOSE v \in S : \A w \in S : ts_key(v) <= ts_key(w)
        ELSE IF dtype_of(d, name) = "datetime64" THEN NaT ELSE NaN
series_max(d, name) ==
    LET col == column_values(d, name)
        S == {col[r] : r \in {x \in 1..Len(col) : col[x].t = "date"}}
    IN  IF S # {} THEN CHOOSE v \in S : \A w \in S : ts_key(w) <= ts_key(v)
        ELSE IF dtype_of(d, name) = "datetime64" THEN NaT ELSE NaN

\* select_dtypes(include=[np.number]).columns
numeric_cols(d) ==
    {d.columns[k] : k \in {x \in 1..Len(d.columns) : d.dtypes[x] = "int64"}}

\* describe() of one numeric column: count, min, max and the mean as the
\* ratio sum / count (the standard deviation and the quartiles are left
\* out); nan where the column has no row
describe(d, name) ==
    LET col == column_values(d, name)
        S == {col[r].i : r \in 1..Len(col)}
        nan == [kind |-> "nan", num |-> 0, den |-> 1]
        num(n) == [kind |-> "num", num |-> n, den |-> 1]
    IN  IF Len(col) = 0
        THEN [count |-> 0, mean |-> nan, min |-> nan, max |-> nan]
        ELSE [count |-> Len(col),
              mean |-> [kind |-> "num", num |-> SumSeq(col), den |-> Len(col)],
              min |-> num(Min(S)), max |-> num(Max(S))]

get_summary_stats(d) ==
    [called |-> TRUE,
     total_records |-> Len(d.rows),
     date_range |->
        [start |-> IF has_column(d, "data")
                   THEN series_min(d, "data") ELSE NoneV,
         end   |-> IF has_column(d, "data")
                   THEN series_max(d, "data") ELSE NoneV],
     numeric_summary |-> [c \in numeric_cols(d) |-> describe(d, c)]]

-----------------------------------------------------------------------------
(* ExcelReportGenerator.add_summary_sheet *)
SummaryName == "Resumo Executivo"
\* f"RELATORIO EXECUTIVO - {company_name}" with the default company name
\* (the accented O of the source counts as one character)
SummaryTitle == "RELATORIO EXECUTIVO - Empresa XYZ"
\* f"Gerado em: {now:%d/%m/%Y %H:%M}" at one moment of generation
GeneratedLine == "Gerado em: 29/10/2026 17:00"

Pad2(n) == IF n < 10 THEN "0" \o ToString(n) ELSE ToString(n)

\* strftime('%d/%m/%Y') of a date of the model year
strftime(v) == Pad2(v.i % 100) \o "/" \o Pad2(v.i \div 100) \o "/2024"

\* truth value of summary['date_range']['start']: None is false, a
\* Timestamp, NaT and nan are true
truthy(v) == v.t # "none"

\* the cells add_summary_sheet writes before it formats the sheet: the
\* title in A1 (merged over A1:E1, so B1..E1 are empty MergedCells), the
\* generation line in A3, the statistics block in A5 and A6, and in A7 the
\* date range when with_period
summary_cells(stats, with_period) ==
    [p \in ({1} \X (1..5)) \cup {<<3, 1>>, <<5, 1>>, <<6, 1>>}
           \cup (IF with_period THEN {<<7, 1>>} ELSE {}) |->
        CASE p = <<1, 1>> -> StrV(SummaryTitle)
          [] p = <<3, 1>> -> StrV(GeneratedLine)
          [] p = <<5, 1>> -> StrV("ESTATISTICAS GERAIS")
          [] p = <<6, 1>> ->
                StrV("Total de Registros: " \o ToString(stats.total_records))
          [] p = <<7, 1>> ->
                StrV("Periodo: " \o strftime(stats.date_range.start) \o " a "
                         \o strftime(stats.date_range.end))
          [] OTHER -> NoneV]

\* the fonts add_summary_sheet sets: Font(size=16, bold=True) on A1,
\* Font(bold=True) on A5
summary_style(p) ==
    [DefaultStyle EXCEPT !.font = CASE p = <<1, 1>> -> "size16_bold"
                                    [] p = <<5, 1>> -> "bold"
                                    [] OTHER -> "default"]

\* the summary sheet as add_summary_sheet leaves it before format_worksheet
summary_sheet(title, stats, with_period) ==
    [title |-> title,
     cells |-> summary_cells(stats, with_period),
     merged |-> {1} \X (2..5),
     style |-> [p \in DOMAIN summary_cells(stats, with_period) |->
                   summary_style(p)],
     width |-> <<>>]

\* add_summary_sheet(analyzer) on the object state (wb, wss), analyzer over d.
\* raised: "ValueError" from strftime of NaT, "AttributeError" from
\* strftime of nan (a float has none) and from format_worksheet reaching
\* the merged header cells
add_summary_sheet(wb, wss, d) ==
    LET title == sheet_title(wb, SummaryName)
        wss1 == [n \in (DOMAIN wss) \cup {SummaryName} |->
                    IF n = SummaryName THEN Len(wb) + 1 ELSE wss[n]]
        stats == get_summary_stats(d)
        with_period == truthy(stats.date_range.start)
    IN  IF with_period /\ stats.date_range.start.t \in {"nat", "nan"}
        THEN [workbook |-> Append(wb, summary_sheet(title, stats, FALSE)),
              worksheets |-> wss1, summary |-> stats,
              raised |-> IF stats.date_range.start.t = "nat"
                         THEN "ValueError" ELSE "AttributeError"]
        ELSE LET f == format_sheet(summary_sheet(title, stats, with_period))
             IN  [workbook |-> Append(wb, f.ws), worksheets |-> wss1,
                  summary |-> stats,
                  raised |-> IF f.raised THEN "AttributeError" ELSE "none"]

-----------------------------------------------------------------------------
(* ExcelReportGenerator.save_report *)
\* save_report(): nothing to do without a workbook; workbook.save raises
\* IndexError for a workbook without sheets (after the archive was opened
\* at output_path), an OSError where output_path cannot be written
save_report(wb, writable) ==
    IF ~wb.open
    THEN [saved |-> NoFile, raised |-> "none"]
    ELSE IF ~writable
    THEN [saved |-> NoFile, raised |-> "OSError"]
    ELSE IF Len(wb.sheets) = 0
    THEN [saved |-> [written |-> TRUE, complete |-> FALSE, sheets |-> <<>>],
          raised |-> "IndexError"]
    ELSE [saved |-> [written |-> TRUE, complete |-> TRUE,
                     sheets |-> [k \in 1..Len(wb.sheets) |-> wb.sheets[k].title]],
          raised |-> "none"]

-----------------------------------------------------------------------------
(* ExcelReportGenerator.generate_complete_report *)

\* faulty variant: an exception is swallowed and control goes on
after_step_ignoring(raised, next) == next

\* the try block: an exception leaves it for the except clause, which
\* returns; otherwise control goes on to the next statement
after_step(raised, next) == IF raised THEN "done" ELSE next

\* where control goes once the for loop over data_dict.items() is over
after_loop(cfg, dd) ==
    IF cfg.include_summary /\ dd # <<>> THEN "summary" ELSE "save"

\* where control goes once the sheet of entry k is added and formatted
after_entry(cfg, dd, k) ==
    IF k < Len(dd) THEN "add" ELSE after_loop(cfg, dd)

Step(name, raised) == [step |-> name, ok |-> ~raised]

-----------------------------------------------------------------------------
(* Spec: one call of generate_complete_report(data_dict) on a new generator *)
PipeNames ==
    {"Vendas Detalhadas", SummaryName, "resumo executivo", "Vendas/2024"}

PipeDom ==
    [c \in {"data", "quantidade"} |->
        IF c = "data" THEN {Timestamp(2, 20, 599814)} ELSE {IntV(7)}]

\* the DataFrames of the model: sales with their dates, and a frame
\* without columns
PipeFrames ==
    DataFrames({<<"data", "quantidade">>}, MaxPipeRows, PipeDom)
        \cup DataFrames({<<>>}, 0, PipeDom)

\* dd is a mapping name -> DataFrame with at most MaxSheets entries, as the
\* sequence of its items in insertion order
IsDataDict(dd) ==
    \E n \in 0..MaxSheets :
        \E q \in [1..n -> [name : PipeNames, data : PipeFrames]] :
            /\ \A a, b \in 1..n : a # b => q[a].name # q[b].name
            /\ dd = q

Init ==
    /\ IsDataDict(data_dict)
    /\ config \in [include_summary : BOOLEAN, auto_format : BOOLEAN,
                   path_writable : BOOLEAN]
    /\ workbook = NoWorkbook
    /\ worksheets = <<>>
    /\ pc = "create"
    /\ i = 1
    /\ ret = "none"
    /\ trace = <<>>
    /\ summary = NoSummary
    /\ saved = NoFile
    /\ data = [columns |-> <<>>, rows |-> <<>>, dtypes |-> <<>>]
    /\ args = <<>>
    /\ out = "none"
    /\ nformat = 0

\* self.create_workbook(): a workbook whose default sheet was removed
CreateWorkbook ==
    /\ pc = "create"
    /\ workbook' = Workbook(<<>>)
    /\ trace' = Append(trace, Step("create_workbook", FALSE))
    /\ pc' = after_step(FALSE, IF data_dict = <<>>
                               THEN after_loop(config, data_dict) ELSE "add")
    /\ UNCHANGED <<data, args, out, data_dict, config, worksheets, i, ret,
                   summary, saved, nformat>>

\* self.add_worksheet(sheet_name, data) for entry i of data_dict
StepAddWorksheet ==
    /\ pc = "add"
    /\ LET r == add_worksheet(workbook.sheets, worksheets, data_dict[i].name,
                              data_dict[i].data)
       IN  /\ workbook' = Workbook(r.workbook)
           /\ worksheets' = r.worksheets
           /\ trace' = Append(trace, Step("add_worksheet", r.raised))
           /\ pc' = after_step(r.raised,
                       IF config.auto_format THEN "format"
                       ELSE after_entry(config, data_dict, i))
           /\ ret' = IF pc' = "done" THEN "False" ELSE ret
           /\ i' = IF config.auto_format \/ pc' = "done" THEN i ELSE i + 1
    /\ UNCHANGED <<data, args, out, data_dict, config, summary, saved, nformat>>

\* self.format_worksheet(sheet_name) for entry i of data_dict
StepFormatWorksheet ==
    /\ pc = "format"
    /\ LET r == format_worksheet(workbook.sheets, worksheets,
                                 data_dict[i].name)
       IN  /\ workbook' = Workbook(r.workbook)
           /\ trace' = Append(trace, Step("format_worksheet", r.raised))
           /\ pc' = after_step(r.raised, after_entry(config, data_dict, i))
           /\ ret' = IF pc' = "done" THEN "False" ELSE ret
           /\ i' = IF pc' = "done" THEN i ELSE i + 1
    /\ UNCHANGED <<data, args, out, data_dict, config, worksheets, summary,
                   saved, nformat>>

\* self.add_summary_sheet(ReportAnalyzer(first_data))
StepAddSummarySheet ==
    /\ pc = "summary"
    /\ LET r == add_summary_sheet(workbook.sheets, worksheets,
                                  data_dict[1].data)
       IN  /\ workbook' = Workbook(r.workbook)
           /\ worksheets' = r.worksheets
           /\ summary' = r.summary
           /\ trace' = Append(trace, Step("add_summary_sheet", r.raised # "none"))
           /\ pc' = after_step(r.raised # "none", "save")
           /\ ret' = IF pc' = "done" THEN "False" ELSE ret
    /\ UNCHANGED <<data, args, out, data_dict, config, i, saved, nformat>>

\* self.save_report(), then return True; False from the except clause
StepSaveReport ==
    /\ pc = "save"
    /\ LET r == save_report(workbook, config.path_writable)
       IN  /\ saved' = r.saved
           /\ trace' = Append(trace, Step("save_report", r.raised # "none"))
           /\ pc' = "done"
           /\ ret' = IF after_step(r.raised # "none", "return") = "return"
                     THEN "True" ELSE "False"
    /\ UNCHANGED <<data, args, out, data_dict, config, workbook, worksheets, i,
                   summary, nformat>>

Next ==
    \/ CreateWorkbook
    \/ StepAddWorksheet
    \/ StepFormatWorksheet
    \/ StepAddSummarySheet
    \/ StepSaveReport

Spec == Init /\ [][Next]_vars

-----------------------------------------------------------------------------
(* Claims about generate_complete_report *)
Returned == pc = "done"

Sheets == workbook.sheets

\* sheet k of the workbook has the name of entry k of data_dict, followed
\* by a number where an earlier entry has the same name up to case
IsTitledAsEntry(k) ==
    LET name == data_dict[k].name
    IN  /\ Len(Sheets[k].title) >= Len(name)
        /\ SubSeq(Sheets[k].title, 1, Len(name)) = name
        /\ (\A j \in 1..(k - 1) : lower(data_dict[j].name) # lower(name))
              => Sheets[k].title = name

\* sheet k of the workbook is the sheet of entry k of data_dict
IsSheetOfEntry(k) ==
    /\ IsTitledAsEntry(k)
    /\ \A p \in DOMAIN populate_cells(data_dict[k].data) :
          /\ p \in DOMAIN Sheets[k].cells
          /\ Sheets[k].cells[p] = populate_cells(data_dict[k].data)[p]

\* sheet k of the workbook is the one add_summary_sheet made
IsSummarySheet(k) ==
    /\ <<1, 1>> \in DOMAIN Sheets[k].cells
    /\ Sheets[k].cells[<<1, 1>>] = StrV(SummaryTitle)
    /\ Sheets[k].merged = {1} \X (2..5)

SummaryDue == config.include_summary /\ data_dict # <<>>

\* no two sheets have the same title, nor titles that differ in case only
UniqueTitles ==
    \A j, k \in 1..Len(Sheets) :
        j # k => lower(Sheets[j].title) # lower(Sheets[k].title)

\* C6: after generate_complete_report returned True the workbook holds one
\* sheet per entry of data_dict in insertion order, then the summary sheet
\* as the last sheet exactly when include_summary is set and data_dict is
\* not empty, and no two sheets have the same title (nor titles that differ
\* in case only).  The order and the unique titles are also stated of every
\* state on the way, so that they cover the workbook add_summary_sheet
\* leaves when a DataFrame is itself named like the summary sheet.
C6_Theorem ==
    /\ UniqueTitles
    /\ Len(Sheets) <= Len(data_dict) + 1
    /\ \A k \in 1..Len(Sheets) :
          IF k <= Len(data_dict) THEN IsTitledAsEntry(k)
          ELSE SummaryDue /\ IsSummarySheet(k)
    /\ ret = "True" =>
          /\ Len(Sheets) = Len(data_dict) + (IF SummaryDue THEN 1 ELSE 0)
          /\ \A k \in 1..Len(data_dict) : IsSheetOfEntry(k) /\ ~IsSummarySheet(k)
          /\ SummaryDue <=> (Len(Sheets) > 0 /\ IsSummarySheet(Len(Sheets)))

\* a successful call on two DataFrames, the first named like the summary
\* sheet
C6_Witness ==
    /\ ret = "True"
    /\ Len(data_dict) = 2
    /\ data_dict[1].name = SummaryName
    /\ Len(Sheets) = 2
    /\ Sheets[1].title = SummaryName
    /\ Sheets[2].title = "Vendas Detalhadas"

\* the positions of the trace at which a step was executed
StepsOf(name) == {k \in 1..Len(trace) : trace[k].step = name}

\* C7: a failed step is the last step executed; the call returns False then
\* and True only when every step, the save included, went through; the save
\* is run at most once, and only after every sheet was added (and formatted
\* under auto_format) and the summary, when due, was composed
C7_Theorem ==
    /\ \A k \in 1..(Len(trace) - 1) : trace[k].ok
    /\ Returned <=> ret \in {"True", "False"}
    /\ ret = "False" <=> (trace # <<>> /\ ~trace[Len(trace)].ok)
    /\ ret = "True" <=>
          /\ trace # <<>>
          /\ trace[Len(trace)] = Step("save_report", FALSE)
          /\ saved.complete
    /\ saved.written => StepsOf("save_report") # {}
    /\ Cardinality(StepsOf("save_report")) <= 1
    /\ \A k \in StepsOf("save_report") :
          /\ k = Len(trace)
          /\ Cardinality(StepsOf("create_workbook")) = 1
          /\ Cardinality(StepsOf("add_worksheet")) = Len(data_dict)
          /\ Cardinality(StepsOf("format_worksheet")) =
                (IF config.auto_format THEN Len(data_dict) ELSE 0)
          /\ Cardinality(StepsOf("add_summary_sheet")) =
                (IF SummaryDue THEN 1 ELSE 0)

\* the second sheet cannot be created: the first one stays, nothing is
\* saved, False is returned
C7_Witness ==
    /\ ret = "False"
    /\ Len(data_dict) = 2
    /\ Len(Sheets) = 1
    /\ trace[Len(trace)] = Step("add_worksheet", TRUE)
    /\ StepsOf("save_report") = {}
    /\ ~saved.written

\* C8: with an empty data_dict and include_summary set (and an output path
\* that can be written) the call makes no summary sheet, reaches the save
\* and returns True
C8_Claim ==
    (/\ Returned
     /\ data_dict = <<>>
     /\ config.include_summary
     /\ config.path_writable) =>
        /\ StepsOf("add_summary_sheet") = {}
        /\ StepsOf("save_report") # {}
        /\ ret = "True"

FirstData == data_dict[1].data

\* C9: get_summary_stats gives total_records = number of rows, no date
\* range (None) when the 'data' column is missing or there is no row, an
\* empty numeric summary when no column is numeric; so the summary sheet of
\* a DataFrame without rows has no date-range line and is composed without
\* a failure
C9_Claim ==
    summary.called =>
        /\ summary.total_records = Len(FirstData.rows)
        /\ (~has_column(FirstData, "data") \/ Len(FirstData.rows) = 0) =>
              /\ summary.date_range.start = NoneV
              /\ summary.date_range.end = NoneV
        /\ numeric_cols(FirstData) = {} => DOMAIN summary.numeric_summary = {}
        /\ Len(FirstData.rows) = 0 =>
              /\ <<7, 1>> \notin DOMAIN Sheets[Len(Sheets)].cells
              /\ trace[Len(trace)] = Step("add_summary_sheet", FALSE)

====
